---------------------------- MODULE Spec2Model ----------------------------
(***************************************************************************)
(* A model of pikaur's update classification and report code:              *)
(*   src/pikaur/print_department.py  RepoColorGenerator,                   *)
(*                                   SysupgradePrettyFormatter,            *)
(*                                   print_package_search_results          *)
(*   src/pikaur/updates.py           is_devel_pkg, find_aur_devel_updates, *)
(*                                   find_aur_updates                      *)
(* Each part of the program has a specification of its own (SpecColor,     *)
(* SpecFmt, SpecAur, SpecSearch) over the module's variables; the parts    *)
(* a specification does not run stay in their initial state.               *)
(*                                                                         *)
(* Text is modelled as a sequence of one-character strings, so that        *)
(* str.endswith, str.split and fnmatch are computed character by character.*)
(***************************************************************************)
EXTENDS Integers, Sequences, FiniteSets

VARIABLES
    \* ---- RepoColorGenerator (class attributes) ----
    type_storage,     \* _type_storage: color_type -> last colour handed out
    cache,            \* _cache: color_type -> (_id -> colour)
    init_done,        \* _init_done
    official_repos,   \* pacman.OFFICIAL_REPOS, read by do_init
    syncdbs,          \* names of PackageDB.get_alpm_handle().get_syncdbs()
    last_call,        \* the last get_next call: its arguments and its result
    seen,             \* history: color_type -> ids in first-request order
    first_ret,        \* history: <<color_type, id>> -> colour first returned
    calls,            \* number of get_next calls made from outside the class
    \* ---- SysupgradePrettyFormatter ----
    install_info,     \* self.install_info: the fetcher's eight lists
    lists,            \* the formatter's own eight lists (self.repo_packages_updates, ...)
    color,            \* self.color
    manual,           \* the manual_package_selection argument
    config,           \* self.config (PikaurConfig) and the verbose argument
    warn_about_packages_list,  \* the warned list of pformat_warned_packages
    result,           \* self.result
    fmt_pc,           \* the method __call__ runs next; "raised" after an exception
    \* ---- find_aur_updates ----
    aur_env,          \* what the call reads: AUR answer, local database,
                      \* arguments, DevelPkgsExpiration, clock
    aur_updates,      \* the returned list of updates
    skip_notices,     \* what print_ignoring_outofdate_upgrade has printed
    aur_pc,           \* "start" before the call, "done" after it
    \* ---- print_package_search_results ----
    search_env,       \* the arguments and the configuration the call reads
    sorted_packages,  \* the local sorted_packages
    enumerated_packages,  \* the local enumerated_packages
    printed,          \* what the loop has printed, one entry per package
    returned,         \* the returned list
    search_pc,        \* "start", "loop" while printing, "done" after return
    \* ---- pretty_format_upgradeable and print_ignored_package ----
    packages_updates, \* the records handed to pretty_format_upgradeable
    pretty_options,   \* its keyword arguments and the configuration it reads
    pretty_result,    \* the returned lines, in their order
    ignored_message,  \* what print_ignored_package has printed
    constructed,      \* the update records this code has built
    pretty_pc         \* "start", then "returned" or "printed"

colorVars == <<type_storage, cache, init_done, official_repos, syncdbs,
               last_call, seen, first_ret, calls>>

fmtVars == <<install_info, lists, color, manual, config,
             warn_about_packages_list, result, fmt_pc>>

aurVars == <<aur_env, aur_updates, skip_notices, aur_pc>>

searchVars == <<search_env, sorted_packages, enumerated_packages, printed,
                returned, search_pc>>

prettyVars == <<packages_updates, pretty_options, pretty_result,
                ignored_message, constructed, pretty_pc>>

vars == <<colorVars, fmtVars, aurVars, searchVars, prettyVars>>

----------------------------------------------------------------------------
(* Text helpers *)

\* "abc" as <<"a","b","c">> is written out by hand where it is needed.
EndsWith(s, suffix) ==
    /\ Len(s) >= Len(suffix)
    /\ SubSeq(s, Len(s) - Len(suffix) + 1, Len(s)) = suffix

\* dict.get(k): a missing key gives None, which the code only ever tests for
\* truth; 0 stands for None (both are falsy, and no stored value is 0).
Lookup(d, k) == IF k \in DOMAIN d THEN d[k] ELSE 0

Put(d, k, v) == [x \in (DOMAIN d) \cup {k} |-> IF x = k THEN v ELSE d[x]]

EmptyDict == [x \in {} |-> 0]

\* The characters of the model's texts, in code-point order.
Chars == <<"(", ")", "*", ",", "-", ".", "0", "1", "2", "5", "6", "7", "?", "_",
           "a", "b", "c", "d", "e", "f", "g", "h", "i", "l", "m", "n",
           "o", "r", "s", "t", "u", "v", "x", "y", "z">>

CharCode(c) == CHOOSE k \in 1..Len(Chars) : Chars[k] = c

RECURSIVE StrLess(_, _)
\* a < b for two str values (lexicographic by code point)
StrLess(a, b) ==
    IF b = <<>> THEN FALSE
    ELSE IF a = <<>> THEN TRUE
    ELSE IF Head(a) = Head(b) THEN StrLess(Tail(a), Tail(b))
    ELSE CharCode(Head(a)) < CharCode(Head(b))

RECURSIVE SplitFrom(_, _, _, _)
SplitFrom(s, sep, k, cur) ==
    IF k > Len(s) THEN <<cur>>
    ELSE IF s[k] = sep THEN <<cur>> \o SplitFrom(s, sep, k + 1, <<>>)
    ELSE SplitFrom(s, sep, k + 1, Append(cur, s[k]))

\* s.split(sep) for a one-character separator
Split(s, sep) == SplitFrom(s, sep, 1, <<>>)

RECURSIVE fnmatch(_, _)
\* fnmatch.fnmatch(name, pat) for patterns of literal characters, * and ?
fnmatch(name, pat) ==
    IF pat = <<>> THEN name = <<>>
    ELSE IF Head(pat) = "*"
         THEN \/ fnmatch(name, Tail(pat))
              \/ (name # <<>> /\ fnmatch(Tail(name), pat))
    ELSE IF name = <<>> THEN FALSE
    ELSE IF Head(pat) = "?" THEN fnmatch(Tail(name), Tail(pat))
    ELSE Head(pat) = Head(name) /\ fnmatch(Tail(name), Tail(pat))

\* Repository names
Core == <<"c", "o", "r", "e">>
Extra == <<"e", "x", "t", "r", "a">>
Multilib == <<"m", "u", "l", "t", "i", "l", "i", "b">>
Custom == <<"c", "u", "s", "t", "o", "m">>
Repo5 == <<"r", "5">>
Repo6 == <<"r", "6">>
Repo7 == <<"r", "7">>

----------------------------------------------------------------------------
(* RepoColorGenerator *)

MaxCalls == 4

MAX_COLOR == 15
FIRST_COLOR == 10

ColorTypes == {"repo", "group"}

RepoIds == {Core, Extra, Multilib, Custom, Repo5, Repo6, Repo7}

\* The (OFFICIAL_REPOS, sync databases) pairs a process may run with.
RepoSetups ==
    { <<(<<Core, Extra>>), (<<Core, Extra, Custom>>)>>,
      <<(<<Core, Extra, Multilib>>),
        (<<Core, Extra, Multilib, Custom, Repo5, Repo6, Repo7>>)>> }

\* cls._cache.get(color_type, {}).get(_id)
CacheGet(c, color_type, id) ==
    IF color_type \in DOMAIN c THEN Lookup(c[color_type], id) ELSE 0

\* the two keys looked up in the wrong order
CacheHitSwappedKeys(c, color_type, id) == CacheGet(c, id, color_type) # 0

\* line 110: if cls._cache.get(color_type, {}).get(_id)
CacheHit(c, color_type, id) == CacheGet(c, color_type, id) # 0

\* the wrap test written with > instead of >=
NextCounterOffByOne(cur) ==
    IF cur = 0 \/ cur > MAX_COLOR THEN FIRST_COLOR ELSE cur + 1

\* lines 113-119: the per-category counter after one more id
NextCounter(cur) ==
    IF cur = 0 \/ cur >= MAX_COLOR THEN FIRST_COLOR ELSE cur + 1

\* The history a call leaves behind (not program state).
SeenOf(s, color_type) == IF color_type \in DOMAIN s THEN s[color_type] ELSE <<>>

Remember(st, color_type, id, ret) ==
    [ seen |-> IF \E k \in 1..Len(SeenOf(st.seen, color_type)) :
                     SeenOf(st.seen, color_type)[k] = id
               THEN st.seen
               ELSE Put(st.seen, color_type,
                        Append(SeenOf(st.seen, color_type), id)),
      first_ret |-> IF <<color_type, id>> \in DOMAIN st.first_ret
                    THEN st.first_ret
                    ELSE Put(st.first_ret, <<color_type, id>>, ret) ]

\* get_next after its do_init() call, lines 110-123.
\* st = [storage, cache, done, seen, first_ret, ret]
GetNextBody(st, color_type, id) ==
    IF CacheHit(st.cache, color_type, id)
    THEN LET ret == st.cache[color_type][id]
             h == Remember(st, color_type, id, ret)
         IN  [st EXCEPT !.ret = ret, !.seen = h.seen, !.first_ret = h.first_ret]
    ELSE LET counter == NextCounter(Lookup(st.storage, color_type))
             inner == IF color_type \in DOMAIN st.cache
                      THEN st.cache[color_type] ELSE EmptyDict
             h == Remember(st, color_type, id, counter)
         IN  [ storage |-> Put(st.storage, color_type, counter),
               cache |-> Put(st.cache, color_type, Put(inner, id, counter)),
               done |-> st.done,
               seen |-> h.seen,
               first_ret |-> h.first_ret,
               ret |-> counter ]

RECURSIVE RegisterAll(_, _, _)
\* the two loops of do_init, lines 102-105: get_next("repo", name) for each
\* (the nested do_init calls return at once: _init_done is already set)
RegisterAll(st, names, k) ==
    IF k > Len(names) THEN st
    ELSE RegisterAll(GetNextBody(st, "repo", names[k]), names, k + 1)

\* do_init, lines 97-105
DoInit(st) ==
    IF st.done THEN st
    ELSE RegisterAll([st EXCEPT !.done = TRUE], official_repos \o syncdbs, 1)

\* get_next as a function of the class state, lines 107-123
GetNext(st, color_type, id) == GetNextBody(DoInit(st), color_type, id)

\* The class attributes (and their history) as one value, and back.
ColorState ==
    [storage |-> type_storage, cache |-> cache, done |-> init_done,
     seen |-> seen, first_ret |-> first_ret, ret |-> 0]

SetColorState(st) ==
    /\ type_storage' = st.storage
    /\ cache' = st.cache
    /\ init_done' = st.done
    /\ seen' = st.seen
    /\ first_ret' = st.first_ret

NoCall == [color_type |-> "", id |-> <<>>, ret |-> 0, repeat |-> FALSE]

ColorInit ==
    /\ type_storage = EmptyDict
    /\ cache = EmptyDict
    /\ init_done = FALSE
    /\ last_call = NoCall
    /\ seen = EmptyDict
    /\ first_ret = EmptyDict
    /\ calls = 0

\* RepoColorGenerator.get_next(color_type, _id), called from outside
get_next(color_type, id) ==
    /\ calls < MaxCalls
    /\ SetColorState(GetNext(ColorState, color_type, id))
    /\ last_call' = [color_type |-> color_type, id |-> id,
                     ret |-> GetNext(ColorState, color_type, id).ret,
                     repeat |-> <<color_type, id>>
                                  \in DOMAIN DoInit(ColorState).first_ret]
    /\ calls' = calls + 1
    /\ UNCHANGED <<official_repos, syncdbs>>
    /\ UNCHANGED <<fmtVars, aurVars, searchVars, prettyVars>>

----------------------------------------------------------------------------
(* pretty_format_upgradeable: one rendered line per record, sorted *)

\* get_common_version(current, new) of version.py: the common prefix of the
\* two version strings and a divergence weight.
RECURSIVE CommonPrefix(_, _)
CommonPrefix(a, b) ==
    IF a = <<>> \/ b = <<>> \/ Head(a) # Head(b) THEN <<>>
    ELSE <<Head(a)>> \o CommonPrefix(Tail(a), Tail(b))

get_common_version(current, new) ==
    LET common == CommonPrefix(current, new)
        longer == IF Len(current) > Len(new) THEN Len(current) ELSE Len(new)
    IN  [common |-> common, weight |-> longer - Len(common)]

AurSentinel == <<"z", "z", "z", "_", "(", "a", "u", "r", ")">>

UpgradeSortingValues == {"VERSIONDIFF", "PKGNAME", "REPO"}

\* Variant: the name is the key in every mode.
SortKeyLessByName(sorting, p, q) == StrLess(p.name, q.name)

\* x[1] < y[1] for the sort keys of two records, lines 173-184
SortKeyLess(sorting, p, q) ==
    LET wp == get_common_version(p.current_version, p.new_version).weight
        wq == get_common_version(q.current_version, q.new_version).weight
        rp == IF p.repository # <<>> THEN p.repository ELSE AurSentinel
        rq == IF q.repository # <<>> THEN q.repository ELSE AurSentinel
    IN  CASE sorting = "PKGNAME" -> StrLess(p.name, q.name)
          [] sorting = "REPO" ->
                StrLess(rp, rq) \/ (rp = rq /\ StrLess(p.name, q.name))
          [] OTHER ->
                (0 - wp) < (0 - wq) \/ (wp = wq /\ StrLess(p.name, q.name))

RECURSIVE InsertSorted(_, _, _)
\* place x before the first element it is smaller than (sorted() is stable)
InsertSorted(sorting, done, x) ==
    IF done = <<>> THEN <<x>>
    ELSE IF SortKeyLess(sorting, x.pkg, Head(done).pkg)
         THEN <<x>> \o done
         ELSE <<Head(done)>> \o InsertSorted(sorting, Tail(done), x)

RECURSIVE SortLines(_, _, _)
\* sorted(..., key=lambda x: x[1]), lines 327-335
SortLines(sorting, items, k) ==
    IF k = 0 THEN <<>>
    ELSE InsertSorted(sorting, SortLines(sorting, items, k - 1), items[k])

\* Whether pretty_format asks RepoColorGenerator for the colour of the
\* record's repository, lines 190-191 and 126-130
AsksRepoColor(pkg, verb, print_repo, col) ==
    (print_repo \/ verb) /\ pkg.repository # <<>> /\ col

RECURSIVE ColorsAfterLines(_, _, _, _, _, _)
\* The class state of RepoColorGenerator after pretty_format has run on
\* the records k.. of the list, in list order.
ColorsAfterLines(st, pkgs, k, verb, print_repo, col) ==
    IF k > Len(pkgs) THEN st
    ELSE ColorsAfterLines(
             IF AsksRepoColor(pkgs[k], verb, print_repo, col)
             THEN GetNext(st, "repo", pkgs[k].repository) ELSE st,
             pkgs, k + 1, verb, print_repo, col)

RECURSIVE FormatLines(_, _, _, _, _, _)
\* pretty_format of each record, lines 160-325: what the line shows and
\* whether it carries colour escapes
FormatLines(st, pkgs, k, verb, print_repo, col) ==
    IF k > Len(pkgs) THEN <<>>
    ELSE LET asks == AsksRepoColor(pkgs[k], verb, print_repo, col)
             st1 == IF asks THEN GetNext(st, "repo", pkgs[k].repository)
                    ELSE st
         IN  << [pkg |-> pkgs[k],
                 colored |-> col,
                 repo_prefix |-> (print_repo \/ verb) /\ pkgs[k].repository # <<>>,
                 aur_prefix |-> ~((print_repo \/ verb) /\ pkgs[k].repository # <<>>)
                                /\ print_repo,
                 repo_color |-> IF asks THEN st1.ret ELSE 0,
                 with_description |-> verb] >>
             \o FormatLines(st1, pkgs, k + 1, verb, print_repo, col)

\* pretty_format_upgradeable(packages_updates, verbose, print_repo, color),
\* lines 133-335: the lines in sorted order
pretty_format_upgradeable(st, sorting, pkgs, verb, print_repo, col) ==
    LET items == FormatLines(st, pkgs, 1, verb, print_repo, col)
    IN  SortLines(sorting, items, Len(items))

----------------------------------------------------------------------------
(* SysupgradePrettyFormatter *)

MaxPkgs == 2

\* self.all_install_info_lists, lines 375-386
all_install_info_lists ==
    <<"repo_packages_updates", "thirdparty_repo_packages_updates",
      "aur_updates", "repo_replacements", "thirdparty_repo_replacements",
      "new_repo_deps", "new_thirdparty_repo_deps", "new_aur_deps">>

Buckets == { all_install_info_lists[k] : k \in 1..Len(all_install_info_lists) }

DepBuckets == {"new_repo_deps", "new_thirdparty_repo_deps", "new_aur_deps"}

AurBuckets == {"aur_updates", "new_aur_deps"}

ThirdpartyBuckets ==
    {"thirdparty_repo_packages_updates", "thirdparty_repo_replacements",
     "new_thirdparty_repo_deps"}

\* Package names and versions of the records handed to the formatter.
PkgNames == << <<"a", "b">>, <<"b">>, <<"a">>, <<"b", "b">> >>

PkgVersions ==
    << << <<"1", ".", "0">>, <<"1", ".", "1">> >>,
       << <<"1", ".", "0">>, <<"2", ".", "0">> >>,
       << <<>>, <<"1", ".", "0">> >>,
       << <<"1", ".", "1">>, <<"1", ".", "2">> >> >>

Nth(table, i) == table[((i - 1) % Len(table)) + 1]

\* The InstallInfo record number i as the fetcher files it in a bucket:
\* repo-origin records carry a repository and sizes, AUR-origin ones do not.
InstallInfo(i, bucket) ==
    [ id |-> i,
      name |-> Nth(PkgNames, i),
      current_version |-> Nth(PkgVersions, i)[1],
      new_version |-> Nth(PkgVersions, i)[2],
      repository |-> IF bucket \in AurBuckets THEN <<>>
                     ELSE IF bucket \in ThirdpartyBuckets THEN Custom
                     ELSE Core,
      size |-> IF bucket \in AurBuckets THEN 0 ELSE 2 ^ (i - 1),
      isize |-> IF bucket \in AurBuckets THEN 0 ELSE 4 * (2 ^ (i - 1)) ]

RECURSIVE BucketList(_, _, _)
BucketList(assign, bucket, i) ==
    IF i > MaxPkgs THEN <<>>
    ELSE (IF assign[i] = bucket THEN <<InstallInfo(i, bucket)>> ELSE <<>>)
         \o BucketList(assign, bucket, i + 1)

\* The bucket sets an InstallInfoFetcher can hold: every record in at most
\* one bucket.
FetcherStates ==
    { [b \in Buckets |-> BucketList(assign, b, 1)] :
        assign \in [1..MaxPkgs -> Buckets \cup {"none"}] }

\* ui.WarnAboutPackageUpdates values: "", "a*", "ab,b", "a*,*b", "?b,bb", "b,b"
WarnStrings ==
    { <<>>,
      <<"a", "*">>,
      <<"a", "b", ",", "b">>,
      <<"a", "*", ",", "*", "b">>,
      <<"?", "b", ",", "b", "b">>,
      <<"b", ",", "b">> }

\* The other settings read from PikaurConfig.
BaseConfigs ==
    { [AlwaysShowPkgOrigin |-> FALSE, ShowDownloadSize |-> TRUE,
       UpgradeSorting |-> "VERSIONDIFF", verbose |-> FALSE],
      [AlwaysShowPkgOrigin |-> TRUE, ShowDownloadSize |-> TRUE,
       UpgradeSorting |-> "PKGNAME", verbose |-> FALSE],
      [AlwaysShowPkgOrigin |-> FALSE, ShowDownloadSize |-> FALSE,
       UpgradeSorting |-> "REPO", verbose |-> TRUE],
      [AlwaysShowPkgOrigin |-> TRUE, ShowDownloadSize |-> TRUE,
       UpgradeSorting |-> "REPO", verbose |-> TRUE] }

\* __init__, lines 351-373: the formatter's own lists are slices (copies) of
\* the fetcher's; manual selection empties the three dependency lists
FormatterListsKeepingDeps(info, manual_package_selection) ==
    [b \in Buckets |-> info[b]]

FormatterLists(info, manual_package_selection) ==
    [b \in Buckets |->
        IF manual_package_selection /\ b \in DepBuckets THEN <<>> ELSE info[b]]

\* __init__, lines 347 and 369-370
FormatterColorAlways(manual_package_selection) == TRUE

FormatterColor(manual_package_selection) == ~manual_package_selection

\* list.remove(x) on a list that holds x
Remove(list, x) ==
    LET k == CHOOSE j \in 1..Len(list) :
                 list[j] = x /\ \A h \in 1..(j - 1) : list[h] # x
    IN  SubSeq(list, 1, k - 1) \o SubSeq(list, k + 1, Len(list))

Contains(list, x) == \E j \in 1..Len(list) : list[j] = x

RECURSIVE GlobLoop(_, _, _, _)
\* for glob in globs_and_names, lines 416-419; st = [pkg_list, warned, raised]
\* list.remove raises ValueError when the record is no longer in the list
GlobLoop(st, pkg, globs, k) ==
    IF st.raised \/ k > Len(globs) THEN st
    ELSE IF fnmatch(pkg.name, globs[k])
         THEN IF Contains(st.pkg_list, pkg)
              THEN GlobLoop([st EXCEPT !.pkg_list = Remove(@, pkg),
                                       !.warned = Append(@, pkg)],
                            pkg, globs, k + 1)
              ELSE [st EXCEPT !.raised = TRUE]
         ELSE GlobLoop(st, pkg, globs, k + 1)

RECURSIVE PkgLoop(_, _, _, _)
\* for pkg_install_info in pkg_list[::], line 415
PkgLoop(st, copy, i, globs) ==
    IF st.raised \/ i > Len(copy) THEN st
    ELSE PkgLoop(GlobLoop(st, copy[i], globs, 1), copy, i + 1, globs)

\* remove_globs_from_pkg_list(pkg_list), lines 413-419
remove_globs_from_pkg_list(pkg_list, warn_list, globs) ==
    PkgLoop([pkg_list |-> pkg_list, warned |-> warn_list, raised |-> FALSE],
            pkg_list, 1, globs)

RECURSIVE ListLoop(_, _, _)
\* for pkg_list in self.all_install_info_lists, lines 424-425
\* st = [lists, warned, raised]
ListLoop(st, globs, k) ==
    IF st.raised \/ k > Len(all_install_info_lists) THEN st
    ELSE LET b == all_install_info_lists[k]
             r == remove_globs_from_pkg_list(st.lists[b], st.warned, globs)
         IN  ListLoop([lists |-> [st.lists EXCEPT ![b] = r.pkg_list],
                       warned |-> r.warned,
                       raised |-> r.raised],
                      globs, k + 1)

\* lines 410-425: the filtering part of pformat_warned_packages
WarnedFilter(cur_lists, warn_about_packages_str) ==
    IF warn_about_packages_str # <<>>
    THEN ListLoop([lists |-> cur_lists, warned |-> <<>>, raised |-> FALSE],
                  Split(warn_about_packages_str, ","), 1)
    ELSE [lists |-> cur_lists, warned |-> <<>>, raised |-> FALSE]

\* An element appended to self.result.
Header(section, count, col) ==
    [kind |-> "header", section |-> section, count |-> count,
     lines |-> <<>>, colored |-> col, download |-> 0, installed |-> 0]

Listing(section, lines, col) ==
    [kind |-> "list", section |-> section, count |-> Len(lines),
     lines |-> lines, colored |-> col, download |-> 0, installed |-> 0]

Totals(download, installed, col) ==
    [kind |-> "total", section |-> "total", count |-> 0,
     lines |-> <<>>, colored |-> col, download |-> download,
     installed |-> installed]

Placeholder ==
    [kind |-> "placeholder", section |-> "total", count |-> 0,
     lines |-> <<>>, colored |-> FALSE, download |-> 0, installed |-> 0]

\* The print_repo argument each section passes to
\* self.pretty_format_upgradeable (None: AlwaysShowPkgOrigin, lines 402-403)
SectionPrintRepo(section, cfg) ==
    CASE section = "thirdparty_repo_packages_updates" -> TRUE
      [] section \in {"aur_updates", "new_aur_deps"} -> FALSE
      [] OTHER -> cfg.AlwaysShowPkgOrigin

\* The list whose length a section's header passes to translate_many
\* (line 460 passes len(self.repo_packages_updates) for the third-party
\* replacements)
SectionCountList(section) ==
    IF section = "thirdparty_repo_replacements"
    THEN "repo_packages_updates" ELSE section

\* The colour argument the formatter passes on, lines 391-407
PassedColorAlways(col) == TRUE

PassedColor(col) == col

RECURSIVE AppendSections(_, _, _)
\* One "if self.<bucket>:" block after the other, lines 443-544.
\* st = [result, colors]; sections: the bucket names in the method's order
AppendSections(st, sections, env) ==
    IF sections = <<>> THEN st
    ELSE LET b == Head(sections)
             pkgs == env.lists[b]
             print_repo == SectionPrintRepo(b, env.cfg)
             col == PassedColor(env.color)
         IN  IF pkgs = <<>> THEN AppendSections(st, Tail(sections), env)
             ELSE AppendSections(
                    [result |-> st.result \o
                        << Header(b, Len(env.lists[SectionCountList(b)]), col),
                           Listing(b, pretty_format_upgradeable(
                                         st.colors, env.cfg.UpgradeSorting,
                                         pkgs, env.cfg.verbose, print_repo, col),
                                   col) >>,
                     colors |-> ColorsAfterLines(st.colors, pkgs, 1,
                                    env.cfg.verbose, print_repo, col)],
                    Tail(sections), env)

RECURSIVE SumOf(_, _)
SumOf(list, field) ==
    IF list = <<>> THEN 0 ELSE Head(list)[field] + SumOf(Tail(list), field)

RECURSIVE SumOverLists(_, _, _)
SumOverLists(all_lists, field, k) ==
    IF k > Len(all_install_info_lists) THEN 0
    ELSE SumOf(all_lists[all_install_info_lists[k]], field)
         + SumOverLists(all_lists, field, k + 1)

\* InstallInfoFetcher.get_total_download_size / get_total_installed_size
get_total_download_size(info) == SumOverLists(info, "size", 1)

get_total_installed_size(info) == SumOverLists(info, "isize", 1)

\* __call__, lines 560-567: the methods in the order they are called
CallOrderReposLast ==
    <<"warned", "replacements", "aur", "repo", "thirdparty", "total">>

CallOrder ==
    <<"warned", "replacements", "repo", "thirdparty", "aur", "total">>

StepAfter(step) ==
    LET k == CHOOSE j \in 1..Len(CallOrder) : CallOrder[j] = step
    IN  IF k = Len(CallOrder) THEN "done" ELSE CallOrder[k + 1]

\* The lists the totals are computed from: self.install_info, the fetcher,
\* lines 551 and 554
TotalSizeListsOfFormatter == lists

TotalSizeLists == install_info

\* What no formatter method touches.
fmtOutside == <<official_repos, syncdbs, last_call, calls, aurVars,
                searchVars, prettyVars>>

Env == [lists |-> lists, cfg |-> config, color |-> color]

\* pformat_warned_packages, lines 409-440
pformat_warned_packages ==
    /\ fmt_pc = "warned"
    /\ LET f == WarnedFilter(lists, config.WarnAboutPackageUpdates)
           col == PassedColor(color)
       IN  /\ lists' = f.lists
           /\ warn_about_packages_list' = f.warned
           /\ IF f.raised
              THEN /\ fmt_pc' = "raised"
                   /\ UNCHANGED <<result, type_storage, cache, init_done,
                                  seen, first_ret>>
              ELSE /\ fmt_pc' = StepAfter("warned")
                   /\ IF f.warned # <<>>
                      THEN /\ result' = result \o
                                << Header("warned", Len(f.warned), col),
                                   Listing("warned",
                                       pretty_format_upgradeable(
                                           ColorState, config.UpgradeSorting,
                                           f.warned, config.verbose,
                                           config.AlwaysShowPkgOrigin, col),
                                       col) >>
                           /\ SetColorState(ColorsAfterLines(
                                  ColorState, f.warned, 1, config.verbose,
                                  config.AlwaysShowPkgOrigin, col))
                      ELSE UNCHANGED <<result, type_storage, cache,
                                       init_done, seen, first_ret>>
    /\ UNCHANGED <<install_info, color, manual, config>>
    /\ UNCHANGED fmtOutside

\* pformat_warned_packages called once more on the same formatter, after the
\* first call has returned or raised
pformat_warned_packages_again ==
    /\ fmt_pc \in {StepAfter("warned"), "raised"}
    /\ LET f == WarnedFilter(lists, config.WarnAboutPackageUpdates)
           col == PassedColor(color)
       IN  /\ lists' = f.lists
           /\ warn_about_packages_list' = f.warned
           /\ IF f.raised
              THEN /\ fmt_pc' = "raised again"
                   /\ UNCHANGED <<result, type_storage, cache, init_done,
                                  seen, first_ret>>
              ELSE /\ fmt_pc' = "again"
                   /\ IF f.warned # <<>>
                      THEN /\ result' = result \o
                                << Header("warned", Len(f.warned), col),
                                   Listing("warned",
                                       pretty_format_upgradeable(
                                           ColorState, config.UpgradeSorting,
                                           f.warned, config.verbose,
                                           config.AlwaysShowPkgOrigin, col),
                                       col) >>
                           /\ SetColorState(ColorsAfterLines(
                                  ColorState, f.warned, 1, config.verbose,
                                  config.AlwaysShowPkgOrigin, col))
                      ELSE UNCHANGED <<result, type_storage, cache,
                                       init_done, seen, first_ret>>
    /\ UNCHANGED <<install_info, color, manual, config>>
    /\ UNCHANGED fmtOutside

\* A run of "if self.<bucket>:" blocks appending to self.result
AppendBlocks(sections) ==
    LET st == AppendSections([result |-> result, colors |-> ColorState],
                             sections, Env)
    IN  /\ result' = st.result
        /\ SetColorState(st.colors)

\* pformat_replacements, lines 442-464
pformat_replacements ==
    /\ fmt_pc = "replacements"
    /\ AppendBlocks(<<"repo_replacements", "thirdparty_repo_replacements">>)
    /\ fmt_pc' = StepAfter("replacements")
    /\ UNCHANGED <<install_info, lists, color, manual, config,
                   warn_about_packages_list>>
    /\ UNCHANGED fmtOutside

\* pformat_repo, lines 466-489
pformat_repo ==
    /\ fmt_pc = "repo"
    /\ AppendBlocks(<<"repo_packages_updates", "new_repo_deps">>)
    /\ fmt_pc' = StepAfter("repo")
    /\ UNCHANGED <<install_info, lists, color, manual, config,
                   warn_about_packages_list>>
    /\ UNCHANGED fmtOutside

\* pformat_thirdaprty_repo, lines 491-516
pformat_thirdaprty_repo ==
    /\ fmt_pc = "thirdparty"
    /\ AppendBlocks(<<"thirdparty_repo_packages_updates",
                      "new_thirdparty_repo_deps">>)
    /\ fmt_pc' = StepAfter("thirdparty")
    /\ UNCHANGED <<install_info, lists, color, manual, config,
                   warn_about_packages_list>>
    /\ UNCHANGED fmtOutside

\* pformat_aur, lines 518-544
pformat_aur ==
    /\ fmt_pc = "aur"
    /\ AppendBlocks(<<"aur_updates", "new_aur_deps">>)
    /\ fmt_pc' = StepAfter("aur")
    /\ UNCHANGED <<install_info, lists, color, manual, config,
                   warn_about_packages_list>>
    /\ UNCHANGED fmtOutside

\* pformat_total_size, lines 546-558
pformat_total_size ==
    /\ fmt_pc = "total"
    /\ result' = Append(result,
          IF config.ShowDownloadSize
          THEN Totals(get_total_download_size(TotalSizeLists),
                      get_total_installed_size(TotalSizeLists),
                      PassedColor(color))
          ELSE Placeholder)
    /\ fmt_pc' = StepAfter("total")
    /\ UNCHANGED <<install_info, lists, color, manual, config,
                   warn_about_packages_list, type_storage, cache, init_done,
                   seen, first_ret>>
    /\ UNCHANGED fmtOutside

\* No formatter has been built.
FmtIdle ==
    /\ install_info = [b \in Buckets |-> <<>>]
    /\ lists = [b \in Buckets |-> <<>>]
    /\ color = TRUE
    /\ manual = FALSE
    /\ config = [AlwaysShowPkgOrigin |-> FALSE, ShowDownloadSize |-> FALSE,
                 UpgradeSorting |-> "VERSIONDIFF", verbose |-> FALSE,
                 WarnAboutPackageUpdates |-> <<>>]
    /\ warn_about_packages_list = <<>>
    /\ result = <<>>
    /\ fmt_pc = "none"

\* SysupgradePrettyFormatter(install_info, verbose, manual_package_selection)
\* has been constructed, lines 340-389
FmtConstructed ==
    /\ install_info \in FetcherStates
    /\ manual \in BOOLEAN
    /\ \E base \in BaseConfigs, w \in WarnStrings :
          config = [AlwaysShowPkgOrigin |-> base.AlwaysShowPkgOrigin,
                    ShowDownloadSize |-> base.ShowDownloadSize,
                    UpgradeSorting |-> base.UpgradeSorting,
                    verbose |-> base.verbose,
                    WarnAboutPackageUpdates |-> w]
    /\ lists = FormatterLists(install_info, manual)
    /\ color = FormatterColor(manual)
    /\ warn_about_packages_list = <<>>
    /\ result = <<>>
    /\ fmt_pc = CallOrder[1]

----------------------------------------------------------------------------
(* updates.py: is_devel_pkg, find_aur_devel_updates, find_aur_updates *)

MaxAurPkgs == 1

SecondsPerDay == 86400

\* DEVEL_PKGS_POSTFIXES without '-nightly'
DevelPostfixesVcsOnly ==
    << <<"-", "g", "i", "t">>, <<"-", "s", "v", "n">>, <<"-", "b", "z", "r">>,
       <<"-", "h", "g">>, <<"-", "c", "v", "s">> >>

\* DEVEL_PKGS_POSTFIXES, lines 27-34
DEVEL_PKGS_POSTFIXES ==
    << <<"-", "g", "i", "t">>, <<"-", "s", "v", "n">>, <<"-", "b", "z", "r">>,
       <<"-", "h", "g">>, <<"-", "c", "v", "s">>,
       <<"-", "n", "i", "g", "h", "t", "l", "y">> >>

RECURSIVE IsDevelFrom(_, _)
\* the loop of is_devel_pkg from the k-th postfix on, lines 39-42
IsDevelFrom(pkg_name, k) ==
    IF k > Len(DEVEL_PKGS_POSTFIXES) THEN FALSE
    ELSE IF EndsWith(pkg_name, DEVEL_PKGS_POSTFIXES[k]) THEN TRUE
    ELSE IsDevelFrom(pkg_name, k + 1)

\* is_devel_pkg(pkg_name), lines 37-43
is_devel_pkg(pkg_name) == IsDevelFrom(pkg_name, 1)

\* version.compare_versions(a, b): -1, 0 or 1
compare_versions(a, b) ==
    IF a = b THEN 0 ELSE IF StrLess(a, b) THEN 0 - 1 ELSE 1

\* (now - pkg_install_datetime).days, lines 97-100: timedelta.days is the
\* floor of the difference in days (negative for a later install time)
AgeDays(now, installdate) == (now - installdate) \div SecondsPerDay

StaleIfOlder(pkg_age_days, package_ttl_days) == pkg_age_days > package_ttl_days

\* line 101: if pkg_age_days >= package_ttl_days
Stale(pkg_age_days, package_ttl_days) == pkg_age_days >= package_ttl_days

DevelVersion == <<"d", "e", "v", "e", "l">>

\* An optional value: <<>> is None, <<v>> is v.
None == <<>>
Some(v) == <<v>>

RECURSIVE InsertByName(_, _)
InsertByName(done, x) ==
    IF done = <<>> THEN <<x>>
    ELSE IF StrLess(x.name, Head(done).name) THEN <<x>> \o done
    ELSE <<Head(done)>> \o InsertByName(Tail(done), x)

RECURSIVE SortedByName(_, _)
\* sorted(aur_pkgs_info, key=lambda x: x.name), line 92
SortedByName(pkgs, k) ==
    IF k = 0 THEN <<>> ELSE InsertByName(SortedByName(pkgs, k - 1), pkgs[k])

RECURSIVE DevelLoop(_, _, _, _, _)
\* the loop of find_aur_devel_updates, lines 92-110
DevelLoop(pkgs, k, package_ttl_days, local, now) ==
    IF k > Len(pkgs) THEN <<>>
    ELSE LET aur_pkg == pkgs[k]
             local_pkg == local[aur_pkg.name]
             pkg_age_days == AgeDays(now, local_pkg.installdate)
         IN  (IF is_devel_pkg(aur_pkg.name)
                 /\ Stale(pkg_age_days, package_ttl_days)
              THEN << [name |-> aur_pkg.name,
                       current_version |-> local_pkg.version,
                       new_version |-> DevelVersion,
                       devel_pkg_age_days |-> Some(pkg_age_days),
                       maintainer |-> aur_pkg.maintainer,
                       package |-> aur_pkg] >>
              ELSE <<>>)
             \o DevelLoop(pkgs, k + 1, package_ttl_days, local, now)

\* find_aur_devel_updates(aur_pkgs_info, package_ttl_days), lines 85-111
find_aur_devel_updates(aur_pkgs_info, package_ttl_days, local, now) ==
    DevelLoop(SortedByName(aur_pkgs_info, Len(aur_pkgs_info)), 1,
              package_ttl_days, local, now)

IsNewerOrSame(compare_aur_pkg) == compare_aur_pkg <= 0

\* line 131: if compare_aur_pkg < 0
IsNewer(compare_aur_pkg) == compare_aur_pkg < 0

\* Variant: the test of line 140 inverted.
Falsy(optional) == optional = None \/ optional[1] = 0

\* line 140: aur_pkg.outofdate is None or a timestamp
Truthy(optional) == optional # None /\ optional[1] # 0

RECURSIVE VersionLoop(_, _, _, _)
\* the loop of find_aur_updates, lines 126-145
\* st = [aur_updates, aur_pkgs_up_to_date, notices]
VersionLoop(st, pkgs, k, env) ==
    IF k > Len(pkgs) THEN st
    ELSE LET aur_pkg == pkgs[k]
             current_version == env.local[aur_pkg.name].version
             compare_aur_pkg == compare_versions(current_version, aur_pkg.version)
             pkg_install_info ==
                 [name |-> aur_pkg.name,
                  current_version |-> current_version,
                  new_version |-> aur_pkg.version,
                  devel_pkg_age_days |-> None,
                  maintainer |-> aur_pkg.maintainer,
                  package |-> aur_pkg]
         IN  VersionLoop(
               IF IsNewer(compare_aur_pkg)
               THEN IF env.ignore_outofdate /\ Truthy(aur_pkg.outofdate)
                    THEN [st EXCEPT !.notices =
                             Append(@, [name |-> pkg_install_info.name,
                                        version |-> pkg_install_info.new_version])]
                    ELSE [st EXCEPT !.aur_updates = Append(@, pkg_install_info)]
               ELSE [st EXCEPT !.aur_pkgs_up_to_date = Append(@, aur_pkg)],
               pkgs, k + 1, env)

ForcedExpirationIgnored(env) == env.DevelPkgsExpiration

\* lines 148-150: DevelPkgsExpiration, or 0 with --devel
devel_packages_expiration(env) ==
    IF env.devel THEN 0 ELSE env.DevelPkgsExpiration

\* find_aur_updates as a function of what it reads, lines 114-156
FindAurUpdates(env) ==
    LET st == VersionLoop([aur_updates |-> <<>>, aur_pkgs_up_to_date |-> <<>>,
                           notices |-> <<>>], env.found, 1, env)
    IN  [ aur_updates |->
            st.aur_updates \o
            (IF st.aur_pkgs_up_to_date # <<>>
                /\ devel_packages_expiration(env) > 0 - 1
             THEN find_aur_devel_updates(st.aur_pkgs_up_to_date,
                      devel_packages_expiration(env), env.local, env.now)
             ELSE <<>>),
          notices |-> st.notices,
          not_found |-> env.not_found ]

\* The installed packages that are not from a repository, as
\* find_aur_packages finds them.
AurNames ==
    { <<"x", "-", "g", "i", "t">>, <<"x", "-", "s", "v", "n">>,
      <<"x", "-", "b", "z", "r">>, <<"x", "-", "h", "g">>,
      <<"x", "-", "c", "v", "s">>,
      <<"x", "-", "n", "i", "g", "h", "t", "l", "y">>,
      <<"g", "i", "t">>, <<"x", "-", "g", "i", "t", "x">> }

InstalledVersion == <<"1", ".", "1">>

RemoteVersions ==
    { <<"1", ".", "0">>, <<"1", ".", "1">>, <<"1", ".", "2">> }

Now == 20 * SecondsPerDay + 7

\* installed 10 days, 5 days, just under 5 days and 0 seconds ago, and
\* one second after "now"
InstallDates ==
    { Now - 10 * SecondsPerDay, Now - 5 * SecondsPerDay,
      Now - 5 * SecondsPerDay + 1, Now, Now + 1 }

ExpirationValues == {0 - 1, 0, 5}

AurPkgChoices ==
    [ name : AurNames, version : RemoteVersions,
      outofdate : {None, Some(Now - SecondsPerDay)},
      installdate : InstallDates ]

AurPkgLists ==
    { s \in UNION { [1..n -> AurPkgChoices] : n \in 0..MaxAurPkgs } :
        \A i, j \in 1..Len(s) : i # j => s[i].name # s[j].name }

\* What find_aur_updates reads: the AUR answer, the local database, the
\* arguments, the configuration and the clock.
AurEnv(s, ignore_outofdate, devel, expiration) ==
    [ found |-> [k \in 1..Len(s) |->
                   [name |-> s[k].name, version |-> s[k].version,
                    maintainer |-> Some(<<"m">>), outofdate |-> s[k].outofdate]],
      not_found |-> <<>>,
      local |-> [n \in { s[k].name : k \in 1..Len(s) } |->
                   LET k == CHOOSE j \in 1..Len(s) : s[j].name = n
                   IN  [version |-> InstalledVersion,
                        installdate |-> s[k].installdate]],
      ignore_outofdate |-> ignore_outofdate,
      devel |-> devel,
      DevelPkgsExpiration |-> expiration,
      now |-> Now ]

\* find_aur_updates has not been called.
AurIdle ==
    /\ aur_env = AurEnv(<<>>, FALSE, FALSE, 0 - 1)
    /\ aur_updates = <<>>
    /\ skip_notices = <<>>
    /\ aur_pc = "none"

AurStart ==
    /\ \E s \in AurPkgLists, ignore_outofdate \in BOOLEAN, devel \in BOOLEAN,
          expiration \in ExpirationValues :
          aur_env = AurEnv(s, ignore_outofdate, devel, expiration)
    /\ aur_updates = <<>>
    /\ skip_notices = <<>>
    /\ aur_pc = "start"

\* find_aur_updates(), lines 114-156
find_aur_updates ==
    /\ aur_pc = "start"
    /\ aur_updates' = FindAurUpdates(aur_env).aur_updates
    /\ skip_notices' = FindAurUpdates(aur_env).notices
    /\ aur_pc' = "done"
    /\ UNCHANGED aur_env
    /\ UNCHANGED <<colorVars, fmtVars, searchVars, prettyVars>>

----------------------------------------------------------------------------
(* print_package_search_results, print_department.py lines 671-822 *)

\* Bound: the number of packages (repository and AUR together) of one search.
MaxSearchPkgs == 2

\* the sort key of a repository that is not grouped, line 687
UNGROUPED_REPO == 999

\* ui.AurSearchSorting; "hottest" stands for every value that lines 698-709
\* do not name
AurSearchSortingValues ==
    {"pkgname", "popularity", "numvotes", "lastmodified", "hottest"}

\* repos.index(name), line 685 (0-based)
RECURSIVE IndexFrom(_, _, _)
IndexFrom(repos, name, k) ==
    IF repos[k] = name THEN k - 1 ELSE IndexFrom(repos, name, k + 1)

InRepos(repos, name) == \E k \in 1..Len(repos) : repos[k] = name

\* get_repo_sort_key, lines 683-689. A key is <<numbers, name>>.
get_repo_sort_key(pkg, group_by_repo, repos) ==
    << << IF group_by_repo /\ InRepos(repos, pkg.db)
          THEN IndexFrom(repos, pkg.db, 1)
          ELSE UNGROUPED_REPO >>,
       pkg.name >>

\* pkg.numvotes if isinstance(pkg.numvotes, int) else 0, lines 695-696 and
\* 706-708: a missing value counts as 0
OrZero(optional) == IF optional = <<>> THEN 0 ELSE optional[1]

\* get_aur_sort_key, lines 693-710. Popularity is a float in the code; the
\* values used here are whole numbers.
get_aur_sort_key(pkg, user_aur_sort) ==
    LET pkg_numvotes == OrZero(pkg.numvotes)
        pkg_popularity == OrZero(pkg.popularity)
    IN  CASE user_aur_sort = "pkgname" ->
               << << 0 - 1 >>, pkg.name >>
          [] user_aur_sort = "popularity" ->
               << << 0 - pkg_popularity, 0 - pkg_numvotes >>, pkg.name >>
          [] user_aur_sort = "numvotes" ->
               << << 0 - pkg_numvotes, 0 - pkg_popularity >>, pkg.name >>
          [] user_aur_sort = "lastmodified" ->
               << << 0 - OrZero(pkg.lastmodified) >>, pkg.name >>
          [] OTHER ->
               << << (0 - (pkg_numvotes + 1)) * (pkg_popularity + 1) >>,
                  pkg.name >>

\* Python's order on tuples of numbers of one length
NumbersLess(a, b) ==
    \E i \in 1..Len(a) :
        /\ i <= Len(b)
        /\ a[i] < b[i]
        /\ \A j \in 1..(i - 1) : a[j] = b[j]

\* Python's order on the keys (numbers, name)
SearchKeyLess(p, q) ==
    \/ NumbersLess(p[1], q[1])
    \/ p[1] = q[1] /\ StrLess(p[2], q[2])

RECURSIVE InsertByKey(_, _)
\* sorted() is stable: x goes behind every element whose key is not greater
InsertByKey(done, x) ==
    IF done = <<>> THEN <<x>>
    ELSE IF SearchKeyLess(x.key, done[Len(done)].key)
         THEN Append(InsertByKey(SubSeq(done, 1, Len(done) - 1), x),
                     done[Len(done)])
         ELSE Append(done, x)

RECURSIVE SortedByKey(_, _)
\* sorted(packages, key=...), lines 715-722, over [key, pkg] pairs
SortedByKey(keyed, k) ==
    IF k = 0 THEN <<>>
    ELSE InsertByKey(SortedByKey(keyed, k - 1), keyed[k])

PkgsOf(keyed) == [k \in 1..Len(keyed) |-> keyed[k].pkg]

\* sorted_packages, lines 715-723
SortedPackages(env, repos) ==
    LET repo_keyed == [k \in 1..Len(env.repo_packages) |->
                         [key |-> get_repo_sort_key(env.repo_packages[k],
                                                    env.GroupByRepository,
                                                    repos),
                          pkg |-> env.repo_packages[k]]]
        aur_keyed == [k \in 1..Len(env.aur_packages) |->
                         [key |-> get_aur_sort_key(env.aur_packages[k],
                                                   env.AurSearchSorting),
                          pkg |-> env.aur_packages[k]]]
    IN  PkgsOf(SortedByKey(repo_keyed, Len(repo_keyed)))
            \o PkgsOf(SortedByKey(aur_keyed, Len(aur_keyed)))

\* Variant: the enumeration starts at 1.
EnumerateFromOne(s) == [k \in 1..Len(s) |-> [pkg_idx |-> k, package |-> s[k]]]

\* list(enumerate(s)), line 726: pairs (0-based index, package)
Enumerate(s) == [k \in 1..Len(s) |-> [pkg_idx |-> k - 1, package |-> s[k]]]

\* list(reversed(s)), line 728
Reversed(s) == [k \in 1..Len(s) |-> s[Len(s) + 1 - k]]

\* Variant: the list is reversed first and enumerated afterwards.
EnumeratedAfterReversal(pkgs, reverse) ==
    Enumerate(IF reverse THEN Reversed(pkgs) ELSE pkgs)

\* enumerated_packages, lines 726-728
EnumeratedPackages(pkgs, reverse) ==
    IF reverse THEN Reversed(Enumerate(pkgs))
    ELSE Enumerate(pkgs)

\* One iteration of the loop, lines 730-821: what is printed for a package.
\* idx is None or the printed number; in quiet mode only idx and the name
\* are printed, otherwise the origin (coloured for a repository by
\* pretty_format_repo_name) precedes the name and the description follows.
\* The columns behind the name do not depend on the index and are left out.
SearchLine(item, env, repo_color) ==
    [ idx |-> IF env.enumerated THEN <<item.pkg_idx + 1>> ELSE <<>>,
      origin |-> IF env.quiet THEN <<>>
                 ELSE IF item.package.kind = "repo"
                      THEN item.package.db \o <<"/">>
                      ELSE <<"a", "u", "r", "/">>,
      repo_color |-> IF ~env.quiet /\ item.package.kind = "repo"
                     THEN <<repo_color>> ELSE <<>>,
      name |-> item.package.name,
      description |-> ~env.quiet ]

\* ---- the searches ----
SearchNames == { <<"a">>, <<"b">> }

RepoSearchPkgs ==
    { [kind |-> "repo", name |-> n, db |-> d] :
        n \in SearchNames, d \in {Core, Extra} }

AurSearchPkgs ==
    { [kind |-> "aur", name |-> <<"a">>, numvotes |-> <<1>>,
       popularity |-> <<2>>, lastmodified |-> <<1>>],
      [kind |-> "aur", name |-> <<"b">>, numvotes |-> <<2>>,
       popularity |-> <<1>>, lastmodified |-> <<2>>],
      [kind |-> "aur", name |-> <<"c">>, numvotes |-> <<>>,
       popularity |-> <<>>, lastmodified |-> <<>>],
      [kind |-> "aur", name |-> <<"a">>, numvotes |-> <<2>>,
       popularity |-> <<2>>, lastmodified |-> <<>>] }

SeqsUpTo(S, n) == UNION { [1..k -> S] : k \in 0..n }

SearchEnv(r, a, g, s, v, e, q) ==
    [ repo_packages |-> r, aur_packages |-> a,
      GroupByRepository |-> g, AurSearchSorting |-> s,
      ReverseSearchSorting |-> v, enumerated |-> e, quiet |-> q ]

NoSearch == SearchEnv(<<>>, <<>>, FALSE, "hottest", FALSE, FALSE, FALSE)

\* print_package_search_results has not been called.
SearchIdle ==
    /\ search_env = NoSearch
    /\ sorted_packages = <<>>
    /\ enumerated_packages = <<>>
    /\ printed = <<>>
    /\ returned = <<>>
    /\ search_pc = "none"

SearchStart ==
    /\ \E r \in SeqsUpTo(RepoSearchPkgs, MaxSearchPkgs) :
          \E a \in SeqsUpTo(AurSearchPkgs, MaxSearchPkgs - Len(r)),
             g \in BOOLEAN, s \in AurSearchSortingValues,
             v \in BOOLEAN, e \in BOOLEAN, q \in BOOLEAN :
              search_env = SearchEnv(r, a, g, s, v, e, q)
    /\ sorted_packages = <<>>
    /\ enumerated_packages = <<>>
    /\ printed = <<>>
    /\ returned = <<>>
    /\ search_pc = "start"

searchOutside == <<official_repos, syncdbs, last_call, calls, fmtVars,
                   aurVars, prettyVars>>

\* print_package_search_results up to its loop, lines 679-728
print_package_search_results ==
    /\ search_pc = "start"
    /\ sorted_packages' = SortedPackages(search_env, syncdbs)
    /\ enumerated_packages' =
          EnumeratedPackages(SortedPackages(search_env, syncdbs),
                             search_env.ReverseSearchSorting)
    /\ search_pc' = "loop"
    /\ UNCHANGED <<search_env, printed, returned>>
    /\ UNCHANGED <<type_storage, cache, init_done, seen, first_ret>>
    /\ UNCHANGED searchOutside

\* one iteration of the loop of lines 730-821
print_stdout ==
    /\ search_pc = "loop"
    /\ Len(printed) < Len(enumerated_packages)
    /\ LET item == enumerated_packages[Len(printed) + 1]
           asks == ~search_env.quiet /\ item.package.kind = "repo"
           st == IF asks THEN GetNext(ColorState, "repo", item.package.db)
                 ELSE ColorState
       IN  /\ printed' = Append(printed, SearchLine(item, search_env, st.ret))
           /\ SetColorState(st)
    /\ UNCHANGED <<search_env, sorted_packages, enumerated_packages,
                   returned, search_pc>>
    /\ UNCHANGED searchOutside

\* return sorted_packages, line 822
return_sorted_packages ==
    /\ search_pc = "loop"
    /\ Len(printed) = Len(enumerated_packages)
    /\ returned' = sorted_packages
    /\ search_pc' = "done"
    /\ UNCHANGED <<search_env, sorted_packages, enumerated_packages, printed>>
    /\ UNCHANGED <<type_storage, cache, init_done, seen, first_ret>>
    /\ UNCHANGED searchOutside

----------------------------------------------------------------------------
(* pretty_format: the rendered line of one record, lines 160-325, and the
   callers pretty_format_upgradeable is given records by *)

\* Bound: the number of records of one pretty_format_upgradeable call.
MaxUpdates == 2

\* the cap of column_width, line 171
MAX_COLUMN_WIDTH == 37

\* the offset of the version columns, lines 309 and 314
VERSION_COLUMN_OFFSET == 18

Max(a, b) == IF a > b THEN a ELSE b

Min(a, b) == IF a < b THEN a ELSE b

\* column_width = min(int(get_term_width() / 2.5), 37), line 171
column_width(term_width) == Min((2 * term_width) \div 5, MAX_COLUMN_WIDTH)

RECURSIVE Join(_, _)
\* sep.join(items)
Join(items, sep) ==
    IF items = <<>> THEN <<>>
    ELSE IF Len(items) = 1 THEN items[1]
    ELSE items[1] \o sep \o Join(Tail(items), sep)

\* isinstance(pkg_update.package, pyalpm.Package / AURPackageInfo): a
\* repository package carries a size, an AUR package an out-of-date marker
IsRepoPackage(package) == "size" \in DOMAIN package

IsAurPackage(package) == "outofdate" \in DOMAIN package

\* InstallInfo(...) of core.py: the fields a record is built with, the
\* others at their defaults (None, empty lists)
NewInstallInfo(fields) ==
    [ f \in {"name", "current_version", "new_version", "description",
             "repository", "maintainer", "devel_pkg_age_days", "required_by",
             "provided_by", "members_of", "replaces", "package"} |->
        IF f \in DOMAIN fields THEN fields[f]
        ELSE IF f = "package" THEN [none |-> TRUE]
        ELSE <<>> ]

\* lines 186-198: the name behind its origin prefix; b = [text, len] is the
\* name block as shown and the running pkg_len
WithOrigin(pkg_update, o) ==
    IF (o.print_repo \/ o.verbose) /\ pkg_update.repository # <<>>
    THEN [text |-> pkg_update.repository \o <<"/">> \o pkg_update.name,
          len |-> Len(pkg_update.name) + Len(pkg_update.repository) + 1]
    ELSE IF o.print_repo
         THEN [text |-> <<"a", "u", "r", "/">> \o pkg_update.name,
               len |-> Len(pkg_update.name) + 4]
         ELSE [text |-> pkg_update.name, len |-> Len(pkg_update.name)]

\* a segment appended to the name block and counted, e.g. lines 206 and 215
Counted(b, segment) ==
    [text |-> b.text \o segment, len |-> b.len + Len(segment)]

\* lines 200-215: " (for p, q)"
WithRequiredBy(b, pkg_update) ==
    IF pkg_update.required_by # <<>>
    THEN Counted(b, <<" ", "(", "f", "o", "r", " ">>
                    \o Join(pkg_update.required_by, <<",", " ">>) \o <<")">>)
    ELSE b

\* lines 216-221: " (p # q)"
WithProvidedBy(b, pkg_update) ==
    IF pkg_update.provided_by # <<>>
    THEN Counted(b, <<" ", "(">>
                    \o Join(pkg_update.provided_by, <<" ", "#", " ">>)
                    \o <<")">>)
    ELSE b

\* lines 222-236: " (g, h groups)"
WithMembersOf(b, pkg_update) ==
    IF pkg_update.members_of # <<>>
    THEN Counted(b, <<" ", "(">>
                    \o Join(pkg_update.members_of, <<",", " ">>)
                    \o (IF Len(pkg_update.members_of) = 1
                        THEN <<" ", "g", "r", "o", "u", "p">>
                        ELSE <<" ", "g", "r", "o", "u", "p", "s">>)
                    \o <<")">>)
    ELSE b

\* line 244: pkg_name = f"# {pkg_name}"; pkg_len is left as it is
CommentMarker(b) == [text |-> <<"#", " ">> \o b.text, len |-> b.len]

\* lines 237-244: " (replaces p, q)", behind a "# " when colour is off
WithReplaces(b, pkg_update, o) ==
    IF pkg_update.replaces # <<>>
    THEN LET r == Counted(b, <<" ", "(", "r", "e", "p", "l", "a", "c", "e",
                               "s", " ">>
                             \o Join(pkg_update.replaces, <<",", " ">>)
                             \o <<")">>)
         IN  IF ~o.color THEN CommentMarker(r) ELSE r
    ELSE b

\* lines 257-263: " [orphaned]"
WithOrphaned(b, pkg_update) ==
    IF IsAurPackage(pkg_update.package) /\ pkg_update.maintainer = <<>>
    THEN Counted(b, <<" ", "[", "o", "r", "p", "h", "a", "n", "e", "d", "]">>)
    ELSE b

\* the name block and pkg_len, lines 186-263
NameBlock(pkg_update, o) ==
    WithOrphaned(
        WithReplaces(
            WithMembersOf(
                WithProvidedBy(
                    WithRequiredBy(WithOrigin(pkg_update, o), pkg_update),
                    pkg_update),
                pkg_update),
            pkg_update, o),
        pkg_update)

\* line 254: if pkg_update.devel_pkg_age_days
AgeIsTruthy(devel_pkg_age_days) ==
    devel_pkg_age_days # <<>> /\ devel_pkg_age_days[1] # 0

\* Variant: the third padding is computed whether a size is shown or not.
Spacing3Always(pkg_size_shown, width) == width

\* lines 313-317: the third padding is empty when no size is shown
Spacing3(pkg_size_shown, width) == IF pkg_size_shown THEN width ELSE 0

\* pretty_format(pkg_update), lines 160-325: the parts of the rendered line.
\* o = [verbose, print_repo, color, template, ShowDownloadSize, term_width]
pretty_format(pkg_update, o) ==
    LET b == NameBlock(pkg_update, o)
        cw == column_width(o.term_width)
        pkg_size_shown == o.ShowDownloadSize /\ IsRepoPackage(pkg_update.package)
        over == Max(0 - 1, b.len - cw)
    IN  [ template |-> o.template,
          name |-> pkg_update.name,
          pkg_name |-> b.text,
          pkg_len |-> b.len,
          column_width |-> cw,
          current_version |-> pkg_update.current_version,
          new_version |-> pkg_update.new_version,
          version_separator |-> IF pkg_update.current_version # <<>>
                                   \/ pkg_update.new_version # <<>>
                                THEN <<" ", "-", ">", " ">> ELSE <<>>,
          spacing |-> Max(1, cw - b.len),
          spacing2 |-> Max(1, cw - VERSION_COLUMN_OFFSET
                                 - Len(pkg_update.current_version) - over),
          spacing3 |-> Spacing3(pkg_size_shown,
                           Max(1, cw - VERSION_COLUMN_OFFSET
                                     - Len(pkg_update.new_version) - over)),
          pkg_size |-> IF pkg_size_shown THEN <<pkg_update.package.size>>
                       ELSE <<>>,
          days_old |-> IF AgeIsTruthy(pkg_update.devel_pkg_age_days)
                       THEN pkg_update.devel_pkg_age_days ELSE <<>>,
          out_of_date |-> IF IsAurPackage(pkg_update.package)
                          THEN pkg_update.package.outofdate ELSE <<>>,
          description |-> o.verbose /\ pkg_update.description # <<>>,
          colored |-> o.color ]

\* pretty_format_upgradeable with the rendered lines, lines 327-335: every
\* record rendered, the lines sorted by their keys
RenderedLines(pkgs, o) ==
    LET items == [k \in 1..Len(pkgs) |->
                     [pkg |-> pkgs[k], line |-> pretty_format(pkgs[k], o)]]
        sorted == SortLines(o.UpgradeSorting, items, Len(items))
    IN  [k \in 1..Len(sorted) |-> sorted[k].line]

\* ---- the records pretty_format_upgradeable is given ----

RECURSIVE RepoUpgradeLoop(_, _, _)
\* the loop of find_repo_upgradeable, updates.py lines 70-81
RepoUpgradeLoop(upgradeable, local, k) ==
    IF k > Len(upgradeable) THEN <<>>
    ELSE LET repo_pkg == upgradeable[k]
             local_pkg == local[repo_pkg.name]
         IN  << NewInstallInfo(
                    [name |-> local_pkg.name,
                     new_version |-> repo_pkg.version,
                     current_version |-> local_pkg.version,
                     description |-> repo_pkg.desc,
                     repository |-> repo_pkg.db,
                     package |-> repo_pkg]) >>
             \o RepoUpgradeLoop(upgradeable, local, k + 1)

\* find_repo_upgradeable(), updates.py lines 67-82
find_repo_upgradeable(upgradeable, local) ==
    RepoUpgradeLoop(upgradeable, local, 1)

\* a repository named so that it sorts behind "zzz_(aur)"
LateRepo == <<"z", "z", "z", "z">>

LongName == <<"a", "b", "c", "d", "e", "f", "g", "h", "i">>

\* What find_upgradeable_packages and the local database hold.
UpgradeablePkgs ==
    << [name |-> <<"a">>, version |-> <<"1", ".", "1">>, desc |-> <<"d">>,
        db |-> Core, size |-> 1],
       [name |-> <<"b">>, version |-> <<"2", ".", "0">>, desc |-> <<>>,
        db |-> LateRepo, size |-> 2] >>

LocalPkgs ==
    [n \in {<<"a">>, <<"b">>} |->
        [name |-> n, version |-> <<"1", ".", "0">>, installdate |-> 0]]

\* The AUR answers the AUR-origin records are classified from:
\* x-git installed 10 days ago with a TTL of 5, x-git installed now with
\* --devel, git with a newer and flagged remote version, and an orphaned
\* x-svn installed 5 days ago with a TTL of 0.
AurAnswers ==
    { AurEnv(<<[name |-> <<"x", "-", "g", "i", "t">>,
                version |-> <<"1", ".", "1">>, outofdate |-> <<>>,
                installdate |-> Now - 10 * SecondsPerDay]>>, FALSE, FALSE, 5),
      AurEnv(<<[name |-> <<"x", "-", "g", "i", "t">>,
                version |-> <<"1", ".", "1">>, outofdate |-> <<>>,
                installdate |-> Now]>>, FALSE, TRUE, 0 - 1),
      AurEnv(<<[name |-> <<"g", "i", "t">>,
                version |-> <<"1", ".", "2">>,
                outofdate |-> <<Now - SecondsPerDay>>,
                installdate |-> Now]>>, FALSE, FALSE, 0 - 1),
      [AurEnv(<<[name |-> <<"x", "-", "s", "v", "n">>,
                 version |-> <<"1", ".", "0">>, outofdate |-> <<>>,
                 installdate |-> Now - 5 * SecondsPerDay]>>, FALSE, FALSE, 0)
          EXCEPT !.found[1].maintainer = <<>>] }

\* The records built by this code: by find_repo_upgradeable and by
\* find_aur_updates (which adds those of find_aur_devel_updates).
ClassifiedRecords ==
    LET repo == find_repo_upgradeable(UpgradeablePkgs, LocalPkgs)
    IN  { repo[k] : k \in 1..Len(repo) }
        \cup { NewInstallInfo(FindAurUpdates(env).aur_updates[1]) :
                 env \in AurAnswers }

\* Records the install-info fetcher hands over with annotations: a
\* replacement, and a new dependency (no current version) that is required,
\* provided and member of a group.
FetcherRecords ==
    { NewInstallInfo(
          [name |-> <<"c">>, current_version |-> <<"1", ".", "0">>,
           new_version |-> <<"1", ".", "1">>, repository |-> Core,
           replaces |-> << <<"a">> >>,
           package |-> [name |-> <<"c">>, version |-> <<"1", ".", "1">>,
                        desc |-> <<>>, db |-> Core, size |-> 4]]),
      NewInstallInfo(
          [name |-> LongName, new_version |-> <<"1", ".", "0">>,
           description |-> <<"d">>, repository |-> Extra,
           required_by |-> << <<"a">>, <<"b">> >>,
           provided_by |-> << <<"b">> >>,
           members_of |-> << <<"g">> >>,
           package |-> [name |-> LongName, version |-> <<"1", ".", "0">>,
                        desc |-> <<"d">>, db |-> Extra, size |-> 8]]) }

UpdateRecords == ClassifiedRecords \cup FetcherRecords

\* get_term_width()
TermWidths == {20, 80, 100}

\* the template argument: None, or one of the three of print_ignored_package
\* ("{pkg_name} ({current_version} => {new_version})",
\*  "{pkg_name} {current_version}", "{pkg_name} {new_version}")
DefaultTemplate == "default"

PrettyOptions(verbose, print_repo, col, template, sorting, show_size, width) ==
    [ verbose |-> verbose, print_repo |-> print_repo, color |-> col,
      template |-> template, UpgradeSorting |-> sorting,
      ShowDownloadSize |-> show_size, term_width |-> width ]

NoMessage == [kind |-> "none", lines |-> <<>>, ignored_from |-> <<>>]

\* pretty_format_upgradeable has not been called.
PrettyIdle ==
    /\ packages_updates = <<>>
    /\ pretty_options = PrettyOptions(FALSE, FALSE, TRUE, DefaultTemplate,
                                      "VERSIONDIFF", FALSE, 80)
    /\ pretty_result = <<>>
    /\ ignored_message = NoMessage
    /\ constructed = <<>>
    /\ pretty_pc = "none"

\* the records of a list that this code has built
RECURSIVE BuiltByClassifier(_)
BuiltByClassifier(pkgs) ==
    IF pkgs = <<>> THEN <<>>
    ELSE (IF Head(pkgs) \in ClassifiedRecords THEN <<Head(pkgs)>> ELSE <<>>)
         \o BuiltByClassifier(Tail(pkgs))

PrettyStart ==
    /\ \E n \in 0..MaxUpdates :
          /\ packages_updates \in [1..n -> UpdateRecords]
          /\ \A i, j \in 1..n :
                i # j => packages_updates[i].name # packages_updates[j].name
    /\ \E verbose \in BOOLEAN, print_repo \in BOOLEAN, col \in BOOLEAN,
          sorting \in UpgradeSortingValues, show_size \in BOOLEAN,
          width \in TermWidths :
          pretty_options = PrettyOptions(verbose, print_repo, col,
                               DefaultTemplate, sorting, show_size, width)
    /\ pretty_result = <<>>
    /\ ignored_message = NoMessage
    /\ constructed = BuiltByClassifier(packages_updates)
    /\ pretty_pc = "start"

prettyOutside == <<official_repos, syncdbs, last_call, calls, fmtVars,
                   aurVars, searchVars>>

\* pretty_format_upgradeable(packages_updates, verbose=..., print_repo=...,
\* color=...), called with the default template, lines 133-335
call_pretty_format_upgradeable ==
    /\ pretty_pc = "start"
    /\ pretty_result' = RenderedLines(packages_updates, pretty_options)
    /\ SetColorState(ColorsAfterLines(ColorState, packages_updates, 1,
           pretty_options.verbose, pretty_options.print_repo,
           pretty_options.color))
    /\ pretty_pc' = "returned"
    /\ UNCHANGED <<packages_updates, pretty_options, ignored_message,
                   constructed>>
    /\ UNCHANGED prettyOutside

\* the template print_ignored_package chooses, lines 607-617
IgnoredTemplate(given_info) ==
    IF given_info.current_version # <<>> /\ given_info.new_version # <<>>
    THEN "update"
    ELSE IF given_info.current_version # <<>> THEN "current" ELSE "new"

\* print_ignored_package(package_name, install_info, ignored_from),
\* lines 583-622; the arguments are None or a value
print_ignored_package(package_name, given_info, ignored_from) ==
    /\ pretty_pc = "start"
    \* a record passed as install_info is one of the updates, as on line 176
    \* of updates.py
    /\ given_info # <<>> => Contains(packages_updates, given_info[1])
    /\ IF package_name = <<>> /\ given_info = <<>>
       THEN /\ ignored_message' = [kind |-> "TypeError", lines |-> <<>>,
                                   ignored_from |-> <<>>]
            /\ UNCHANGED constructed
       ELSE LET info == IF given_info # <<>> THEN given_info[1]
                        ELSE NewInstallInfo([name |-> package_name[1]])
                o == [pretty_options EXCEPT !.verbose = FALSE,
                                            !.print_repo = FALSE,
                                            !.color = TRUE,
                                            !.template = IgnoredTemplate(info)]
            IN  /\ ignored_message' =
                      [kind |-> IF o.template = "update"
                                THEN "Ignoring package update"
                                ELSE "Ignoring package",
                       lines |-> RenderedLines(<<info>>, o),
                       ignored_from |-> ignored_from]
                /\ constructed' = IF given_info # <<>> THEN constructed
                                  ELSE Append(constructed, info)
    /\ pretty_pc' = "printed"
    /\ UNCHANGED <<packages_updates, pretty_options, pretty_result>>
    /\ UNCHANGED <<type_storage, cache, init_done, seen, first_ret>>
    /\ UNCHANGED prettyOutside

----------------------------------------------------------------------------
(* Specifications *)

DefaultSetup == <<(<<Core, Extra>>), (<<Core, Extra, Custom>>)>>

InitColor ==
    /\ ColorInit
    /\ \E setup \in RepoSetups :
          /\ official_repos = setup[1]
          /\ syncdbs = setup[2]
    /\ FmtIdle
    /\ AurIdle
    /\ SearchIdle
    /\ PrettyIdle

NextColor ==
    \E color_type \in ColorTypes, id \in RepoIds : get_next(color_type, id)

SpecColor == InitColor /\ [][NextColor]_vars

InitFmt ==
    /\ ColorInit
    /\ official_repos = DefaultSetup[1]
    /\ syncdbs = DefaultSetup[2]
    /\ FmtConstructed
    /\ AurIdle
    /\ SearchIdle
    /\ PrettyIdle

NextFmt ==
    \/ pformat_warned_packages
    \/ pformat_replacements
    \/ pformat_repo
    \/ pformat_thirdaprty_repo
    \/ pformat_aur
    \/ pformat_total_size

SpecFmt == InitFmt /\ [][NextFmt]_vars

\* the warned filter applied twice to one formatter
NextWarnTwice ==
    \/ pformat_warned_packages
    \/ pformat_warned_packages_again

SpecWarnTwice == InitFmt /\ [][NextWarnTwice]_vars

InitAur ==
    /\ ColorInit
    /\ official_repos = DefaultSetup[1]
    /\ syncdbs = DefaultSetup[2]
    /\ FmtIdle
    /\ AurStart
    /\ SearchIdle
    /\ PrettyIdle

NextAur == find_aur_updates

SpecAur == InitAur /\ [][NextAur]_vars

InitSearch ==
    /\ ColorInit
    /\ official_repos = DefaultSetup[1]
    /\ syncdbs = DefaultSetup[2]
    /\ FmtIdle
    /\ AurIdle
    /\ SearchStart
    /\ PrettyIdle

NextSearch ==
    \/ print_package_search_results
    \/ print_stdout
    \/ return_sorted_packages

SpecSearch == InitSearch /\ [][NextSearch]_vars

InitPretty ==
    /\ ColorInit
    /\ official_repos = DefaultSetup[1]
    /\ syncdbs = DefaultSetup[2]
    /\ FmtIdle
    /\ AurIdle
    /\ SearchIdle
    /\ PrettyStart

\* print_ignored_package is given a name, a record of the list, or neither
NextPretty ==
    \/ call_pretty_format_upgradeable
    \/ \E package_name \in {<<>>, << <<"a">> >>},
          given_info \in {<<>>} \cup { <<r>> : r \in UpdateRecords },
          ignored_from \in {<<>>} :
            print_ignored_package(package_name, given_info, ignored_from)

SpecPretty == InitPretty /\ [][NextPretty]_vars

----------------------------------------------------------------------------
(* Claims about print_package_search_results, checked under SpecSearch *)

\* C2 as claimed: with enumerated=True the indices printed, in the order the
\* lines are printed, are 1, 2, ..., n, whether or not ReverseSearchSorting
\* is set.
C2_IndicesAscendInPrintOrder ==
    search_env.enumerated =>
        \A p \in 1..Len(printed) : printed[p].idx = <<p>>

\* C2 as amended: with enumerated=True every printed line carries the
\* 1-based position of its package in the sorted, un-reversed list (the
\* indices are assigned before the reversal): in print order they are
\* 1, 2, ..., n when ReverseSearchSorting is off and n, n-1, ..., 1 when it
\* is on, at every moment of the printing.
C2_IndicesOfSortedOrder ==
    (search_env.enumerated /\ search_pc \in {"loop", "done"}) =>
        \A p \in 1..Len(printed) :
            LET position == IF search_env.ReverseSearchSorting
                            THEN Len(sorted_packages) + 1 - p
                            ELSE p
            IN  /\ printed[p].idx = <<position>>
                /\ printed[p].name = sorted_packages[position].name

\* C2 witness: a reversed, enumerated search of two packages has printed its
\* lines and returned; the first line printed carries the index 2.
C2_Witness ==
    /\ search_pc = "done"
    /\ search_env.enumerated
    /\ search_env.ReverseSearchSorting
    /\ Len(printed) = 2
    /\ printed[1].idx = <<2>>
    /\ printed[2].idx = <<1>>

----------------------------------------------------------------------------
(* Claims about RepoColorGenerator, checked under SpecColor *)

\* C7: get_next is idempotent per (category, id). Every call returns the
\* colour that was returned the first time the pair was requested; no call
\* changes a cache entry that already exists; and a call for a pair that was
\* requested before (by a caller or by do_init's pre-registration) leaves the
\* per-category counters and the whole cache as they were.
C7_Idempotent ==
    [][ calls' = calls + 1 =>
          /\ last_call'.ret =
                 first_ret'[<<last_call'.color_type, last_call'.id>>]
          /\ \A p \in DOMAIN first_ret : first_ret'[p] = first_ret[p]
          /\ \A t \in DOMAIN cache : \A i \in DOMAIN cache[t] :
                 CacheGet(cache', t, i) = cache[t][i]
          /\ (init_done /\ <<last_call'.color_type, last_call'.id>>
                               \in DOMAIN first_ret)
                => /\ type_storage' = type_storage
                   /\ cache' = cache
                   /\ last_call'.ret =
                          first_ret[<<last_call'.color_type, last_call'.id>>]
      ]_vars

\* C7 witness: a pair is requested again after the counter of its category
\* has moved on to another colour.
C7_Witness ==
    /\ last_call.repeat
    /\ calls >= 2
    /\ Lookup(type_storage, last_call.color_type) # last_call.ret

RECURSIVE Dedup(_, _)
\* the distinct elements of a sequence, in order of first occurrence
Dedup(s, acc) ==
    IF s = <<>> THEN acc
    ELSE IF \E k \in 1..Len(acc) : acc[k] = Head(s)
         THEN Dedup(Tail(s), acc)
         ELSE Dedup(Tail(s), Append(acc, Head(s)))

\* C8: within one category the k-th distinct id ever requested has colour
\* 10 + ((k-1) mod 6); the ids pre-registered by do_init (official
\* repositories, then sync databases, in their listed order) come first in
\* category "repo"; every returned colour is in 10..15 and the counter of a
\* category is the colour of its latest distinct id.
C8_PaletteOrder ==
    /\ \A t \in DOMAIN seen : \A k \in 1..Len(seen[t]) :
           CacheGet(cache, t, seen[t][k]) = 10 + ((k - 1) % 6)
    /\ \A t \in DOMAIN seen :
           Lookup(type_storage, t) = 10 + ((Len(seen[t]) - 1) % 6)
    /\ DOMAIN type_storage = DOMAIN seen
    /\ last_call # NoCall => last_call.ret \in 10..15
    /\ init_done =>
          LET pre == Dedup(official_repos \o syncdbs, <<>>)
          IN  /\ Len(SeenOf(seen, "repo")) >= Len(pre)
              /\ SubSeq(SeenOf(seen, "repo"), 1, Len(pre)) = pre

\* C8 witness: a caller's id is the 7th distinct id of its category and
\* gets colour 10 again (the counter wrapped after 15).
C8_Witness ==
    /\ last_call # NoCall
    /\ ~last_call.repeat
    /\ Len(SeenOf(seen, last_call.color_type)) = 7
    /\ seen[last_call.color_type][7] = last_call.id
    /\ last_call.ret = 10

----------------------------------------------------------------------------
(* Claims about SysupgradePrettyFormatter, checked under SpecFmt *)

Count(list, x) == Cardinality({ j \in 1..Len(list) : list[j] = x })

\* The records the formatter was built with.
BuiltWith == FormatterLists(install_info, manual)

\* C1: after pformat_warned_packages has run, with any warn patterns, the
\* call has not raised and every record that was in a bucket is in exactly
\* one place: once in its bucket or once in the warned list.
C1_WarnedPartition ==
    fmt_pc \notin {"none", "warned"} =>
        /\ fmt_pc # "raised"
        /\ \A b \in Buckets : \A j \in 1..Len(BuiltWith[b]) :
              Count(lists[b], BuiltWith[b][j])
                + Count(warn_about_packages_list, BuiltWith[b][j]) = 1
        /\ \A j \in 1..Len(warn_about_packages_list) :
              \E b \in Buckets : Contains(BuiltWith[b], warn_about_packages_list[j])

LastEntry == result[Len(result)]

ManualDropped(field) ==
    IF manual
    THEN SumOf(install_info["new_repo_deps"], field)
         + SumOf(install_info["new_thirdparty_repo_deps"], field)
         + SumOf(install_info["new_aur_deps"], field)
    ELSE 0

SectionOrder ==
    <<"warned", "repo_replacements", "thirdparty_repo_replacements",
      "repo_packages_updates", "new_repo_deps",
      "thirdparty_repo_packages_updates", "new_thirdparty_repo_deps",
      "aur_updates", "new_aur_deps">>

SectionRecords(section) ==
    IF section = "warned" THEN warn_about_packages_list ELSE lists[section]

RECURSIVE ExpectedShape(_)
ExpectedShape(k) ==
    IF k > Len(SectionOrder) THEN << <<"footer", "total">> >>
    ELSE (IF SectionRecords(SectionOrder[k]) # <<>>
          THEN << <<"header", SectionOrder[k]>>, <<"list", SectionOrder[k]>> >>
          ELSE <<>>)
         \o ExpectedShape(k + 1)

Shape(entry) ==
    << IF entry.kind \in {"total", "placeholder"} THEN "footer" ELSE entry.kind,
       entry.section >>

\* C9: the report's sections come in the fixed order warned, official
\* replacements, third-party replacements, official installs, new official
\* dependencies, third-party installs, new third-party dependencies, AUR
\* installs, new AUR dependencies, footer; a section's header and body are
\* there if and only if its bucket (after the warned filtering) is
\* non-empty, and the body lists exactly the records of that bucket.
C9_SectionOrder ==
    fmt_pc \notin {"none", "warned", "raised"} =>
        /\ Len(result) <= Len(ExpectedShape(1))
        /\ \A k \in 1..Len(result) : Shape(result[k]) = ExpectedShape(1)[k]
        /\ fmt_pc = "done" => Len(result) = Len(ExpectedShape(1))
        /\ \A k \in 1..Len(result) :
              result[k].kind = "list" =>
                 /\ Len(result[k].lines) = Len(SectionRecords(result[k].section))
                 /\ \A j \in 1..Len(result[k].lines) :
                       Count(SectionRecords(result[k].section),
                             result[k].lines[j].pkg) = 1

\* C9 witness: a finished report with a warned section, another section
\* and the footer, while some bucket is empty.
C9_Witness ==
    /\ fmt_pc = "done"
    /\ warn_about_packages_list # <<>>
    /\ Len(result) >= 5

RECURSIVE KeepUnwarned(_, _)
\* the records of a list whose name matches none of the patterns
KeepUnwarned(list, globs) ==
    IF list = <<>> THEN <<>>
    ELSE (IF \E k \in 1..Len(globs) : fnmatch(Head(list).name, globs[k])
          THEN <<>> ELSE <<Head(list)>>)
         \o KeepUnwarned(Tail(list), globs)

WarnGlobs ==
    IF config.WarnAboutPackageUpdates = <<>> THEN <<>>
    ELSE Split(config.WarnAboutPackageUpdates, ",")

\* C10: a finished report built with manual_package_selection has no
\* new-dependency section, not one entry or line of it carries colour, and
\* (with or without the flag) the five non-dependency buckets hold the
\* fetcher's records that no warn pattern matches.
C10_ManualSelection ==
    fmt_pc = "done" =>
        /\ \A b \in Buckets \ DepBuckets :
              lists[b] = KeepUnwarned(install_info[b], WarnGlobs)
        /\ manual =>
              \A k \in 1..Len(result) :
                 /\ result[k].section \notin DepBuckets
                 /\ ~result[k].colored
                 /\ \A j \in 1..Len(result[k].lines) :
                       /\ ~result[k].lines[j].colored
                       /\ result[k].lines[j].repo_color = 0

\* C10 witness: a finished manual-selection report whose fetcher holds a
\* new dependency and which lists some other record.
C10_Witness ==
    /\ fmt_pc = "done"
    /\ manual
    /\ \E b \in DepBuckets : install_info[b] # <<>>
    /\ Len(result) >= 3

----------------------------------------------------------------------------
(* Claims about find_aur_updates, checked under SpecAur *)

\* The records returned for a package name.
RecordsFor(name) ==
    { k \in 1..Len(aur_updates) : aur_updates[k].name = name }

\* The six development suffixes, as the claims name them.
HasDevelSuffix(name) ==
    \E suffix \in { <<"-", "g", "i", "t">>, <<"-", "s", "v", "n">>,
                     <<"-", "b", "z", "r">>, <<"-", "h", "g">>,
                     <<"-", "c", "v", "s">>,
                     <<"-", "n", "i", "g", "h", "t", "l", "y">> } :
        /\ Len(name) >= Len(suffix)
        /\ \A j \in 1..Len(suffix) :
              name[Len(name) - Len(suffix) + j] = suffix[j]

EffectiveTtl == IF aur_env.devel THEN 0 ELSE aur_env.DevelPkgsExpiration

WholeDayAge(name) ==
    (aur_env.now - aur_env.local[name].installdate) \div 86400

\* the comparator's result for an AUR package: installed against remote
Compared(pkg) ==
    compare_versions(aur_env.local[pkg.name].version, pkg.version)

Found == { aur_env.found[k] : k \in 1..Len(aur_env.found) }

\* C4 as claimed: a package whose installed and remote versions are equal
\* gets no update record, whatever its name and the staleness settings.
C4_NoRecordWhenEqual ==
    aur_pc = "done" =>
        \A pkg \in Found :
            aur_env.local[pkg.name].version = pkg.version
                => RecordsFor(pkg.name) = {}

\* C4 as amended: a package whose installed and remote versions are equal
\* gets no record of the version path (none whose new_version is a remote
\* version); the only record it can get is the staleness record
\* (new_version "devel"), and only if its name has a development suffix and
\* the effective TTL is >= 0 and at most its whole-day age. Without the
\* suffix, or with a negative TTL and no force flag, it gets no record.
C4_EqualOnlyStaleness ==
    aur_pc = "done" =>
        \A pkg \in Found :
            aur_env.local[pkg.name].version = pkg.version =>
                /\ \A k \in RecordsFor(pkg.name) :
                      /\ aur_updates[k].new_version = <<"d", "e", "v", "e", "l">>
                      /\ aur_updates[k].new_version # pkg.version
                      /\ aur_updates[k].devel_pkg_age_days # <<>>
                      /\ HasDevelSuffix(pkg.name)
                      /\ EffectiveTtl >= 0
                      /\ WholeDayAge(pkg.name) >= EffectiveTtl
                /\ (~HasDevelSuffix(pkg.name) \/ EffectiveTtl < 0)
                      => RecordsFor(pkg.name) = {}

\* C4 witness: an equal-version package with a development suffix got its
\* staleness record.
C4_Witness ==
    /\ aur_pc = "done"
    /\ \E pkg \in Found :
          /\ aur_env.local[pkg.name].version = pkg.version
          /\ RecordsFor(pkg.name) # {}

\* C5: a found package whose remote version is not newer gets a record
\* exactly when its name ends with one of the six development suffixes, the
\* effective TTL is >= 0 and its whole-day age is >= the TTL; there is one
\* such record, with new_version "devel" and devel age equal to the
\* whole-day age. With TTL -1 and no force flag there is none.
C5_StalenessRecord ==
    aur_pc = "done" =>
        \A pkg \in Found :
            Compared(pkg) >= 0 =>
                /\ RecordsFor(pkg.name) # {}
                      <=> /\ HasDevelSuffix(pkg.name)
                          /\ EffectiveTtl >= 0
                          /\ WholeDayAge(pkg.name) >= EffectiveTtl
                /\ Cardinality(RecordsFor(pkg.name)) <= 1
                /\ \A k \in RecordsFor(pkg.name) :
                      /\ aur_updates[k].new_version = <<"d", "e", "v", "e", "l">>
                      /\ aur_updates[k].devel_pkg_age_days
                            = <<WholeDayAge(pkg.name)>>
                      /\ aur_updates[k].current_version
                            = aur_env.local[pkg.name].version
                /\ (aur_env.DevelPkgsExpiration = 0 - 1 /\ ~aur_env.devel)
                      => RecordsFor(pkg.name) = {}

\* C5 witness: the package x-git, installed 10 days ago, with a TTL of 5
\* days and no force flag, got a record of age 10.
C5_Witness ==
    /\ aur_pc = "done"
    /\ aur_env.DevelPkgsExpiration = 5
    /\ ~aur_env.devel
    /\ \E k \in 1..Len(aur_updates) :
          /\ aur_updates[k].name = <<"x", "-", "g", "i", "t">>
          /\ aur_updates[k].new_version = <<"d", "e", "v", "e", "l">>
          /\ aur_updates[k].devel_pkg_age_days = <<10>>

\* C6: with an effective TTL of 0 every development-suffixed package whose
\* remote version is not newer gets a staleness record, whatever its
\* install time (one later than "now" included).
C6_TtlZeroAlwaysStale ==
    (aur_pc = "done" /\ EffectiveTtl = 0) =>
        \A pkg \in Found :
            (Compared(pkg) >= 0 /\ HasDevelSuffix(pkg.name)) =>
                \E k \in RecordsFor(pkg.name) :
                    aur_updates[k].new_version = <<"d", "e", "v", "e", "l">>

----------------------------------------------------------------------------
(* Claims about the section headers, checked under SpecFmt *)

\* C20: every section header passes to the pluralizer the number of records
\* of the list rendered under it: each header in the report is followed by
\* the listing of its own section, and its count is that listing's length.
C20_HeaderCountsOwnList ==
    \A k \in 1..Len(result) :
        result[k].kind = "header" =>
            /\ k < Len(result)
            /\ result[k + 1].kind = "list"
            /\ result[k + 1].section = result[k].section
            /\ result[k].count = Len(result[k + 1].lines)

----------------------------------------------------------------------------
(* Claims about the returned search list, checked under SpecSearch *)

\* the sort key print_package_search_results gives a package
SearchKeyOf(pkg) ==
    IF pkg.kind = "repo"
    THEN get_repo_sort_key(pkg, search_env.GroupByRepository, syncdbs)
    ELSE get_aur_sort_key(pkg, search_env.AurSearchSorting)

\* C19: after an enumerated search has returned, every printed index i names
\* the package at position i-1 (0-based) of the returned list, with the
\* reverse flag set or not; the returned list holds every input package, in
\* un-reversed (ascending key) order, all repository packages before all AUR
\* packages.
C19_IndexNamesReturned ==
    search_pc = "done" =>
        /\ search_env.enumerated =>
              \A p \in 1..Len(printed) :
                  /\ printed[p].idx # <<>>
                  /\ printed[p].idx[1] \in 1..Len(returned)
                  /\ returned[printed[p].idx[1]].name = printed[p].name
                  /\ returned[printed[p].idx[1]]
                        = enumerated_packages[p].package
        /\ Len(returned) = Len(search_env.repo_packages)
                              + Len(search_env.aur_packages)
        /\ Len(printed) = Len(returned)
        /\ \A i \in 1..Len(returned) :
              returned[i].kind = (IF i <= Len(search_env.repo_packages)
                                 THEN "repo" ELSE "aur")
        /\ \A i, j \in 1..Len(returned) :
              (i < j /\ returned[i].kind = returned[j].kind)
                  => ~SearchKeyLess(SearchKeyOf(returned[j]),
                                    SearchKeyOf(returned[i]))

\* C19 witness: a reversed, enumerated search of one AUR and one repository
\* package has returned; the line printed first carries index 2 and is the
\* AUR package stored second in the returned list.
C19_Witness ==
    /\ search_pc = "done"
    /\ search_env.enumerated
    /\ search_env.ReverseSearchSorting
    /\ Len(returned) = 2
    /\ returned[1].kind = "repo"
    /\ returned[2].kind = "aur"
    /\ printed[1].idx = <<2>>
    /\ printed[1].name = returned[2].name
    /\ printed[1].name # returned[1].name

----------------------------------------------------------------------------
(* Claims about the out-of-date skip, checked under SpecAur *)

\* The skip notices printed for a package name.
NoticesFor(name) ==
    { k \in 1..Len(skip_notices) : skip_notices[k].name = name }

\* C16: for a found package whose remote version is strictly newer: if its
\* out-of-date marker is set and --ignore-outofdate was given, exactly one
\* skip notice is printed for it and no record of it is returned by any
\* path, development suffix or not, and the call returns; otherwise its
\* version record is returned and no notice is printed.
C16_OutOfDateSkipped ==
    aur_pc = "done" =>
        \A pkg \in Found :
            Compared(pkg) < 0 =>
                IF aur_env.ignore_outofdate /\ pkg.outofdate # <<>>
                THEN /\ Cardinality(NoticesFor(pkg.name)) = 1
                     /\ \A k \in NoticesFor(pkg.name) :
                           skip_notices[k].version = pkg.version
                     /\ RecordsFor(pkg.name) = {}
                ELSE /\ NoticesFor(pkg.name) = {}
                     /\ Cardinality(RecordsFor(pkg.name)) = 1
                     /\ \A k \in RecordsFor(pkg.name) :
                           /\ aur_updates[k].new_version = pkg.version
                           /\ aur_updates[k].devel_pkg_age_days = <<>>

\* C16 witness: x-git, remote 1.2 newer than the installed 1.1 and flagged
\* out of date, was skipped under --ignore-outofdate with --devel given:
\* one notice, nothing returned.
C16_Witness ==
    /\ aur_pc = "done"
    /\ aur_env.ignore_outofdate
    /\ aur_env.devel
    /\ Len(aur_env.found) >= 1
    /\ aur_env.found[1].name = <<"x", "-", "g", "i", "t">>
    /\ aur_env.found[1].version = <<"1", ".", "2">>
    /\ aur_env.found[1].outofdate # <<>>
    /\ Len(skip_notices) = 1
    /\ skip_notices[1].name = <<"x", "-", "g", "i", "t">>
    /\ aur_updates = <<>>

----------------------------------------------------------------------------
(* Claims about pretty_format_upgradeable and the records it is given,
   checked under SpecPretty *)

\* The input record a rendered line belongs to (names are distinct).
RecordOf(line) ==
    CHOOSE r \in { packages_updates[k] : k \in 1..Len(packages_updates) } :
        r.name = line.name

\* the divergence weight of a record
WeightOf(r) == get_common_version(r.current_version, r.new_version).weight

\* the repository name of a record, or the sentinel of the AUR
RepoKeyOf(r) ==
    IF r.repository # <<>> THEN r.repository
    ELSE <<"z", "z", "z", "_", "(", "a", "u", "r", ")">>

\* r may stand before t in the configured order
InOrder(r, t) ==
    CASE pretty_options.UpgradeSorting = "PKGNAME" ->
           StrLess(r.name, t.name)
      [] pretty_options.UpgradeSorting = "REPO" ->
           \/ StrLess(RepoKeyOf(r), RepoKeyOf(t))
           \/ RepoKeyOf(r) = RepoKeyOf(t) /\ StrLess(r.name, t.name)
      [] OTHER ->
           \/ WeightOf(r) > WeightOf(t)
           \/ WeightOf(r) = WeightOf(t) /\ StrLess(r.name, t.name)

\* the list in another input order
Permuted(q) == [k \in 1..Len(packages_updates) |-> packages_updates[q[k]]]

InputOrders ==
    { q \in [1..Len(packages_updates) -> 1..Len(packages_updates)] :
        \A i, j \in 1..Len(packages_updates) : i # j => q[i] # q[j] }

\* C11: pretty_format_upgradeable returns one line per input record, in
\* ascending order of the configured key: larger divergence weight first and
\* equal weights by name (default), by name (PKGNAME), by repository name or
\* the AUR sentinel and then name (REPO); with distinct names the result is
\* the same for every order of the input.
C11_OneLinePerRecordSorted ==
    pretty_pc = "returned" =>
        /\ Len(pretty_result) = Len(packages_updates)
        /\ \A k \in 1..Len(packages_updates) :
              Cardinality({ j \in 1..Len(pretty_result) :
                  pretty_result[j].name = packages_updates[k].name }) = 1
        /\ \A j \in 1..(Len(pretty_result) - 1) :
              InOrder(RecordOf(pretty_result[j]), RecordOf(pretty_result[j + 1]))
        /\ \A q \in InputOrders :
              RenderedLines(Permuted(q), pretty_options) = pretty_result

\* C11 witness: in the default mode the record b (1.0 -> 2.0), given second,
\* is listed before the record a (1.0 -> 1.1) with the smaller weight.
C11_Witness ==
    /\ pretty_pc = "returned"
    /\ pretty_options.UpgradeSorting = "VERSIONDIFF"
    /\ Len(packages_updates) = 2
    /\ packages_updates[1].name = <<"a">>
    /\ packages_updates[2].name = <<"b">>
    /\ WeightOf(packages_updates[2]) > WeightOf(packages_updates[1])
    /\ pretty_result[1].name = <<"b">>
    /\ pretty_result[2].name = <<"a">>

\* C12: under UpgradeSorting = REPO no AUR-origin record (repository None)
\* is listed before a repo-origin record, whatever the repository is called.
C12_AurLastUnderRepo ==
    (pretty_pc = "returned" /\ pretty_options.UpgradeSorting = "REPO") =>
        \A i, j \in 1..Len(pretty_result) :
            (i < j /\ RecordOf(pretty_result[i]).repository = <<>>)
                => RecordOf(pretty_result[j]).repository = <<>>

\* C13 as claimed: in the default template each of the three paddings is at
\* least one space, for every name, version and terminal width.
C13_ThreePaddingsAtLeastOne ==
    pretty_pc = "returned" =>
        \A k \in 1..Len(pretty_result) :
            /\ pretty_result[k].spacing >= 1
            /\ pretty_result[k].spacing2 >= 1
            /\ pretty_result[k].spacing3 >= 1

\* C13 as amended: in the default template the paddings after the name block
\* and after the current version are at least one space; the padding after
\* the new version is at least one space when a download size is shown and
\* empty when none is shown; column_width is min(floor(width / 2.5), 37).
C13_PaddingFloors ==
    pretty_pc = "returned" =>
        \A k \in 1..Len(pretty_result) :
            LET line == pretty_result[k]
                cw == line.column_width
                w == pretty_options.term_width
            IN  /\ line.template = "default"
                /\ line.spacing >= 1
                /\ line.spacing2 >= 1
                /\ line.pkg_size # <<>> => line.spacing3 >= 1
                /\ line.pkg_size = <<>> => line.spacing3 = 0
                /\ line.pkg_size # <<>>
                      <=> /\ pretty_options.ShowDownloadSize
                          /\ "size" \in DOMAIN RecordOf(line).package
                /\ cw <= 37
                /\ 5 * cw <= 2 * w
                /\ cw = 37 \/ 2 * w < 5 * (cw + 1)

\* C13 witness: a line whose name block is longer than the column (padding
\* 1) and which shows no size has an empty third padding; another terminal
\* width caps the column at 37.
C13_Witness ==
    /\ pretty_pc = "returned"
    /\ \E k \in 1..Len(pretty_result) :
          /\ pretty_result[k].pkg_len > pretty_result[k].column_width
          /\ pretty_result[k].spacing = 1
          /\ pretty_result[k].spacing2 = 1
          /\ pretty_result[k].pkg_size = <<>>
          /\ pretty_result[k].spacing3 = 0
          /\ pretty_result[k].column_width = 8

\* The column of the line at which the current version starts: the leading
\* space, the name block, the padding and one more space.
VersionColumn(line) == 1 + Len(line.pkg_name) + line.spacing + 1

\* C14: pkg_len is the number of visible characters of the name block, so
\* every line whose name block is shorter than column_width starts its
\* current version at the same column, a line with a replacement annotation
\* and colour off included.
C14_PkgLenIsVisibleLength ==
    pretty_pc = "returned" =>
        \A k \in 1..Len(pretty_result) :
            LET line == pretty_result[k]
            IN  /\ line.pkg_len = Len(line.pkg_name)
                /\ line.pkg_len < line.column_width
                      => VersionColumn(line) = line.column_width + 2

\* C15: every update record built by find_repo_upgradeable, find_aur_updates,
\* find_aur_devel_updates or print_ignored_package has a current version or
\* a new version.
C15_VersionsNotBothEmpty ==
    \A k \in 1..Len(constructed) :
        \/ constructed[k].current_version # <<>>
        \/ constructed[k].new_version # <<>>

\* C18: a record with a devel age is rendered with the note of that age
\* ("(N days old)"), age 0 included; a record without one has no note.
C18_StaleRecordsCarryNote ==
    pretty_pc = "returned" =>
        \A k \in 1..Len(pretty_result) :
            pretty_result[k].days_old
                = RecordOf(pretty_result[k]).devel_pkg_age_days

----------------------------------------------------------------------------
(* Claims about a repeated warned filter, checked under SpecWarnTwice *)

\* What the first pformat_warned_packages call did to the new formatter.
FirstPass ==
    WarnedFilter(FormatterLists(install_info, manual),
                 config.WarnAboutPackageUpdates)

\* C17: a second pformat_warned_packages call with the same patterns on the
\* same formatter is a no-op: it returns, leaves every bucket as the first
\* call left it, finds no record to warn about and appends nothing to the
\* report.
C17_SecondPassNoOp ==
    fmt_pc \in {"again", "raised again"} =>
        /\ fmt_pc = "again"
        /\ lists = FirstPass.lists
        /\ warn_about_packages_list = <<>>
        /\ Len(result) = (IF FirstPass.raised \/ FirstPass.warned = <<>>
                          THEN 0 ELSE 2)

=============================================================================
